---------------------------- MODULE Spec2Model ----------------------------
(***************************************************************************)
(* A model of the natural-language command pipeline of the personal        *)
(* finance application: the command-line agent (src/agent.py), the chat    *)
(* pipeline of the backend (src/backend/routers/sql_generator.py,          *)
(* sql_executor.py, response_generator.py) and the REST endpoints that     *)
(* share its store (src/backend/routers/categories.py, transactions.py),   *)
(* and the chat endpoint with its conversation memory                      *)
(* (src/backend/routers/agent.py, conversation_memory.py).                 *)
(*                                                                         *)
(* The relational store is the SQLite file finance.db.  A SQL statement is *)
(* modelled by the parts of its text that the code inspects (fence, leading*)
(* keyword, the letters "where") and by the parts SQLite acts on (table,   *)
(* assignments, filter).  User text is a sequence of words; a completion   *)
(* returned by the hosted service is a sequence of characters (classifier) *)
(* or a statement (generator).                                             *)
(***************************************************************************)
EXTENDS Integers, Sequences, FiniteSets, TLC

VARIABLES
    db,     \* the store finance.db: rows, schema and AUTOINCREMENT sequences
    today,  \* the current date, as a day number
    last,   \* the last operation: what was asked and what the caller got back
    conversation_memories,
            \* the conversation memory of each user of the backend process
    awaiting
            \* the chat requests whose handler waits for the body of the
            \* request: await request.body()

vars == <<db, today, last, conversation_memories, awaiting>>

---------------------------------------------------------------------------
(* Bounds of the model *)

\* the largest id of a category
MaxCategoryId == 3
\* the largest id of a transaction
MaxTransactionId == 1

\* the days that pass
MaxDays == 1


\* the interactions a conversation memory holds
MaxMessages == 1


\* the interactions a conversation memory holds while requests overlap, and
\* the chat requests that wait for their body at one time
MaxHistory == 2
MaxInflight == 2


\* the phrases of one text of the chat
MaxPhrases == 2

Users == {1, 2}

Tables == {"categories", "transactions"}

Kinds == {"INCOME", "EXPENSE"}

\* datetime.now(), as a day number
Today == 10

---------------------------------------------------------------------------
(* Values *)

\* the empty parameter map {}
NoParams == [x \in {} |-> 0]

\* value sources of a statement: a named placeholder, a literal, a sub-select
Param(p) == [k |-> "param", s |-> p, n |-> 0]
LitS(v) == [k |-> "lit_s", s |-> v, n |-> 0]
LitN(v) == [k |-> "lit_n", s |-> "", n |-> v]
\* (SELECT id FROM categories WHERE name = <v> AND transaction_type = :type
\*  AND user_id = :user_id LIMIT 1)
SubCategory(v) == [k |-> "sub", s |-> v, n |-> 0]
\* date('now', '-7 days')
NowMinus7 == [k |-> "now-7", s |-> "", n |-> 0]

Cond(c, o, src) == [col |-> c, op |-> o, src |-> src]


---------------------------------------------------------------------------
(* SQL statements *)

\* A statement, as far as the code and SQLite look at it:
\*   fence  the markdown fence around the text: "none", "sql" (opened by
\*          three backticks and sql), "bare" (opened by three backticks alone
\*          on their line) or "SQL" (opened by three backticks and SQL);
\*          "leading SQL" is that opening fence left without its closing one
\*   verb   its leading keyword(s), lower-cased
\*   table  the table it names
\*   cols   column -> value source (VALUES of an INSERT, SET of an UPDATE)
\*   where  the conditions of its WHERE clause, {} when it has none
\*   lit    TRUE when the letters "where" occur outside a WHERE clause
\*          (inside a string literal or a comment)
Stmt(f, v, t, c, w, l) ==
    [fence |-> f, verb |-> v, table |-> t, cols |-> c, where |-> w, lit |-> l]

\* the sentinel of the generative strategy: "-- Error generating SQL --"
ErrorSentinel == Stmt("none", "--", "", NoParams, {}, FALSE)

\* the empty statement text of a failed pattern synthesis: ""
EmptySql == Stmt("none", "", "", NoParams, {}, FALSE)

\* the placeholders a statement needs bound
Placeholders(q) ==
    {q.cols[c].s : c \in {x \in DOMAIN q.cols : q.cols[x].k = "param"}}
      \cup {c.src.s : c \in {x \in q.where : x.src.k = "param"}}
      \cup (IF \E c \in DOMAIN q.cols : q.cols[c].k = "sub"
            THEN {"type", "user_id"} ELSE {})

---------------------------------------------------------------------------
(* The store: SQLite semantics of one statement *)

\* BINARY collation of the category names of the model
NameOrder == <<"Income", "Misc", "Other", "food", "rent">>

NameRank(n) == CHOOSE i \in 1..Len(NameOrder) : NameOrder[i] = n

\* the value of a source; NULL is 0 for ids and "" for names
Value(d, src, params, now) ==
    CASE src.k = "param" -> params[src.s]
      [] src.k = "lit_s" -> src.s
      [] src.k = "lit_n" -> src.n
      [] src.k = "now-7" -> now - 7
      [] src.k = "sub" ->
           LET hit == {c \in d.categories :
                          /\ c.name = src.s
                          /\ c.transaction_type = params["type"]
                          /\ c.user_id = params["user_id"]}
           IN IF hit = {} THEN 0 ELSE (CHOOSE c \in hit : TRUE).id

Matches(d, r, where, params, now) ==
    \A c \in where :
        IF c.op = ">=" THEN r[c.col] >= Value(d, c.src, params, now)
        ELSE r[c.col] = Value(d, c.src, params, now)

Rows(d, t) == IF t = "categories" THEN d.categories ELSE d.transactions

WithRows(d, t, rs) ==
    IF t = "categories" THEN [d EXCEPT !.categories = rs]
    ELSE [d EXCEPT !.transactions = rs]

\* ORDER BY name
RECURSIVE OrderByName(_)
OrderByName(S) ==
    IF S = {} THEN <<>>
    ELSE LET m == CHOOSE r \in S :
                    \A o \in S : NameRank(r.name) <= NameRank(o.name)
         IN <<m>> \o OrderByName(S \ {m})

\* ORDER BY date DESC, id DESC
RECURSIVE OrderByDateDesc(_)
OrderByDateDesc(S) ==
    IF S = {} THEN <<>>
    ELSE LET m == CHOOSE r \in S :
                    \A o \in S : r.date > o.date \/ (r.date = o.date /\ r.id >= o.id)
         IN <<m>> \o OrderByDateDesc(S \ {m})

\* c.name of LEFT JOIN categories c ON t.category_id = c.id
JoinedName(d, t) ==
    LET hit == {c \in d.categories : c.id = t.category_id}
    IN IF hit = {} THEN "" ELSE (CHOOSE c \in hit : TRUE).name

\* the rows a SELECT returns, as tuples
SelectRows(d, q, params, now) ==
    LET hit == {r \in Rows(d, q.table) : Matches(d, r, q.where, params, now)}
    IN IF q.table = "categories"
       THEN LET o == OrderByName(hit)
            IN [i \in 1..Len(o) |-> <<o[i].name, o[i].transaction_type>>]
       ELSE LET o == OrderByDateDesc(hit)
            IN [i \in 1..Len(o) |->
                   <<o[i].id, o[i].amount, o[i].date, o[i].description,
                     o[i].is_recurring, o[i].recurrence_period,
                     o[i].transaction_type, JoinedName(d, o[i])>>]

\* the row an INSERT builds: named columns from the statement, the others NULL
\* or their DEFAULT, the id from the AUTOINCREMENT sequence
\* the id SQLite gives a new row: one more than the largest id ever used when
\* the table was created by migrate_database (AUTOINCREMENT), one more than the
\* largest id in the table when it came from an older create_all
NextId(d, t) ==
    IF d.autoincrement THEN d.seq[t] + 1
    ELSE IF Rows(d, t) = {} THEN 1
    ELSE (CHOOSE r \in Rows(d, t) : \A o \in Rows(d, t) : r.id >= o.id).id + 1

\* the store with the id handed out recorded in sqlite_sequence
Sequenced(d, t) ==
    IF d.autoincrement THEN [d EXCEPT !.seq[t] = @ + 1] ELSE d

NewRow(d, q, params, now) ==
    LET val(c, dflt) == IF c \in DOMAIN q.cols
                        THEN Value(d, q.cols[c], params, now) ELSE dflt
    IN IF q.table = "categories"
       THEN [id |-> NextId(d, "categories"),
             name |-> val("name", ""),
             transaction_type |-> val("transaction_type", ""),
             user_id |-> val("user_id", 0)]
       ELSE [id |-> NextId(d, "transactions"),
             amount |-> val("amount", 0),
             date |-> val("date", now),
             description |-> val("description", <<>>),
             is_recurring |-> val("is_recurring", 0),
             recurrence_period |-> "NONE",
             transaction_type |-> val("transaction_type", ""),
             category_id |-> val("category_id", 0),
             user_id |-> val("user_id", 0)]

\* UNIQUE(name, user_id), NOT NULL and CHECK constraints of the two tables
ConstraintsHold(d) ==
    /\ \A a, b \in d.categories :
          (a.name = b.name /\ a.user_id = b.user_id) => a = b
    /\ \A c \in d.categories :
          c.name # "" /\ c.user_id # 0 /\ c.transaction_type \in Kinds
    /\ \A t \in d.transactions :
          t.user_id # 0 /\ t.transaction_type \in Kinds

SqlOk(d, rows, n) == [err |-> "", db |-> d, rows |-> rows, rowcount |-> n]
SqlError(d, e) == [err |-> e, db |-> d, rows |-> <<>>, rowcount |-> -1]

\* cursor.execute(sql, params) on a fresh connection: the error raised ("" for
\* none), the store as the connection sees it afterwards, the rows of
\* fetchall() and cursor.rowcount.  Foreign keys are not enforced.
SqlRun(d, q, params, now) ==
    IF q.verb = "--" \/ q.verb = "" THEN SqlOk(d, <<>>, -1)
    ELSE IF q.fence # "none" \/ q.verb = "garbage"
    THEN SqlError(d, "syntax error")
    ELSE IF q.table \notin d.tables THEN SqlError(d, "no such table")
    ELSE IF ~(Placeholders(q) \subseteq DOMAIN params)
    THEN SqlError(d, "You did not supply a value for binding parameter")
    ELSE CASE q.verb = "select" -> SqlOk(d, SelectRows(d, q, params, now), -1)
      [] q.verb = "insert" ->
           LET n == WithRows(Sequenced(d, q.table), q.table,
                             Rows(d, q.table) \cup {NewRow(d, q, params, now)})
           IN IF ConstraintsHold(n) THEN SqlOk(n, <<>>, 1)
              ELSE SqlError(d, "constraint failed")
      [] q.verb = "update" ->
           LET hit == {r \in Rows(d, q.table) : Matches(d, r, q.where, params, now)}
               upd(r) == [f \in DOMAIN r |->
                            IF f \in DOMAIN q.cols
                            THEN Value(d, q.cols[f], params, now) ELSE r[f]]
               n == WithRows(d, q.table,
                             (Rows(d, q.table) \ hit) \cup {upd(r) : r \in hit})
           IN IF Cardinality(Rows(n, q.table)) = Cardinality(Rows(d, q.table))
                 /\ ConstraintsHold(n)
              THEN SqlOk(n, <<>>, Cardinality(hit))
              ELSE SqlError(d, "constraint failed")
      [] q.verb = "delete" ->
           LET hit == {r \in Rows(d, q.table) : Matches(d, r, q.where, params, now)}
           IN SqlOk(WithRows(d, q.table, Rows(d, q.table) \ hit), <<>>,
                    Cardinality(hit))
      [] q.verb = "drop table" ->
           SqlOk([WithRows(d, q.table, {}) EXCEPT !.tables = @ \ {q.table},
                                                  !.seq[q.table] = 0],
                 <<>>, -1)
      [] q.verb = "alter table" ->
           IF q.table \in d.altered THEN SqlError(d, "duplicate column name")
           ELSE SqlOk([d EXCEPT !.altered = @ \cup {q.table}], <<>>, -1)

\* Python's sqlite3 opens a transaction before INSERT, UPDATE and DELETE only:
\* a schema statement takes effect at once, commit or no commit.
Autocommits(q) == q.verb \in {"drop table", "alter table"}


---------------------------------------------------------------------------
(* The outcome of an executor call *)

\* no statement is carried
NoStatement == Stmt("none", "<no statement>", "", NoParams, {}, FALSE)

\* how    "return" (a value came back) or "raise" (an exception left the call)
\* exc    the class of the exception that left the call
\* error  the error text ("" for none); query: the statement the error carries
\* ran    the statements handed to cursor.execute; committed, rolledBack: the
\*        calls of conn.commit() that succeeded and of conn.rollback()
Outcome(how, exc, success, error, query, operation, rows, count, ran, com, rb) ==
    [how |-> how, exc |-> exc, success |-> success, error |-> error,
     query |-> query, operation |-> operation, rows |-> rows, count |-> count,
     ran |-> ran, committed |-> com, rolledBack |-> rb]

\* the faults of the environment: the file cannot be opened, the database is
\* locked when the statement runs, or when it commits
Faults == {"none", "connect", "execute", "commit"}

\* and cursor.execute raising an exception that is no sqlite3.Error: a
\* KeyboardInterrupt while the call waits for a locked database, the
\* UnicodeEncodeError of a text with a lone surrogate, the sqlite3.Warning of
\* a text of several statements on Python 3.10 and earlier
ExecuteFaults == Faults \cup {"other exception"}

---------------------------------------------------------------------------
(* src/agent.py: the command-line agent *)

\* re.sub(<opening fence tagged sql | closing fence>, "", query).strip()
StripFence(q) ==
    [q EXCEPT !.fence = CASE q.fence = "sql" -> "none"
                          [] q.fence = "bare" -> "none"
                          [] q.fence = "SQL" -> "leading SQL"
                          [] OTHER -> q.fence]

\* "where" in cleaned_query.lower()
ContainsWhere(q) == q.where # {} \/ q.lit

\* sql_query.lower().startswith(kw)
StartsWith(q, kw) == q.fence = "none" /\ q.verb = kw

\* execute_sql_query(query, operation_type) of src/agent.py
CliSafetyRejects(q, optype) ==
    optype \in {"update", "delete"} /\ ~ContainsWhere(StripFence(q))

CliExecute(d, q, optype, fault, now) ==
    IF fault = "connect"
    THEN [db |-> d,
          out |-> Outcome("raise", "sqlite3.OperationalError", FALSE,
                          "unable to open database file", NoStatement, optype,
                          <<>>, -1, 0, FALSE, FALSE)]
    ELSE IF CliSafetyRejects(q, optype)
    THEN [db |-> d,
          out |-> Outcome("raise", "RuntimeError", FALSE, "Safety Error", q,
                          optype, <<>>, -1, 0, FALSE, FALSE)]
    ELSE IF fault = "other exception"
    THEN [db |-> d,
          out |-> Outcome("raise", "Exception", FALSE, "not a sqlite3.Error", q,
                          optype, <<>>, -1, 1, FALSE, FALSE)]
    ELSE LET r == IF fault = "execute" THEN SqlError(d, "database is locked")
                  ELSE SqlRun(d, StripFence(q), NoParams, now)
             kept == IF r.err = "" /\ Autocommits(q) THEN r.db ELSE d
         IN IF r.err # ""
            THEN [db |-> d,
                  out |-> Outcome("raise", "RuntimeError", FALSE, "Database error",
                                  q, optype, <<>>, -1, 1, FALSE, FALSE)]
            ELSE IF optype = "view"
            THEN [db |-> kept,
                  out |-> Outcome("return", "", TRUE, "", NoStatement, optype,
                                  r.rows, -1, 1, FALSE, FALSE)]
            ELSE IF fault = "commit"
            THEN [db |-> kept,
                  out |-> Outcome("raise", "RuntimeError", FALSE, "Database error",
                                  q, optype, <<>>, -1, 1, FALSE, FALSE)]
            ELSE [db |-> r.db,
                  out |-> Outcome("return", "", TRUE, "", NoStatement, optype,
                                  <<>>, r.rowcount, 1, TRUE, FALSE)]

\* the calls execute_sql_query of src/agent.py makes on its connection, in
\* their order, up to the point the call returns or raises
CliConnectionEvents(d, q, optype, fault, now) ==
    IF fault = "connect" THEN <<>>
    ELSE IF CliSafetyRejects(q, optype) THEN <<"connect", "cursor", "close">>
    ELSE IF fault = "other exception" THEN <<"connect", "cursor", "execute">>
    ELSE IF fault = "execute" \/ SqlRun(d, StripFence(q), NoParams, now).err # ""
    THEN <<"connect", "cursor", "execute", "close">>
    ELSE IF optype = "view"
    THEN <<"connect", "cursor", "execute", "fetchall", "close">>
    ELSE IF fault = "commit"
    THEN <<"connect", "cursor", "execute", "commit", "close">>
    ELSE <<"connect", "cursor", "execute", "commit", "rowcount", "close">>


\* a completion of the hosted service: the call raised, the message had no
\* content (None), or it returned text
Completion(raised, none, text) == [raised |-> raised, none |-> none, text |-> text]

\* generate_sql_with_llm(system_prompt, user_message) of src/agent.py
CliGenerateSql(resp) ==
    IF resp.raised \/ resp.none THEN ErrorSentinel ELSE StripFence(resp.text)

\* whitespace, for str.strip()
Whitespace == {" ", "\n", "\t"}

RECURSIVE LStrip(_)
LStrip(s) == IF s # <<>> /\ s[1] \in Whitespace THEN LStrip(Tail(s)) ELSE s

RECURSIVE RStrip(_)
RStrip(s) ==
    IF s # <<>> /\ s[Len(s)] \in Whitespace THEN RStrip(SubSeq(s, 1, Len(s) - 1))
    ELSE s

Strip(s) == RStrip(LStrip(s))

UpperCase == <<"C", "D", "E", "I", "L", "P", "R", "T", "U", "V", "W">>
LowerCase == <<"c", "d", "e", "i", "l", "p", "r", "t", "u", "v", "w">>

\* str.lower() on the letters of the model
Lower(s) ==
    [i \in 1..Len(s) |->
        IF \E j \in 1..Len(UpperCase) : UpperCase[j] = s[i]
        THEN LowerCase[CHOOSE j \in 1..Len(UpperCase) : UpperCase[j] = s[i]]
        ELSE s[i]]

ValidIntents ==
    {<<"c", "r", "e", "a", "t", "e">>, <<"v", "i", "e", "w">>,
     <<"u", "p", "d", "a", "t", "e">>, <<"d", "e", "l", "e", "t", "e">>}

DefaultIntent == <<"v", "i", "e", "w">>

\* the classifier without its check against valid_intents
classify_unvalidated(resp) ==
    IF resp.raised \/ resp.none THEN DefaultIntent ELSE Lower(Strip(resp.text))

\* classify_crud_intent(user_input): resp.text is the content of the completion,
\* a sequence of characters
classify_crud_intent(resp) ==
    IF resp.raised \/ resp.none THEN DefaultIntent
    ELSE LET intent == Lower(Strip(resp.text))
         IN IF intent \in ValidIntents THEN intent ELSE DefaultIntent


\* the word of an intent
IntentWord(i) ==
    CASE i = <<"c", "r", "e", "a", "t", "e">> -> "create"
      [] i = <<"u", "p", "d", "a", "t", "e">> -> "update"
      [] i = <<"d", "e", "l", "e", "t", "e">> -> "delete"
      [] OTHER -> "view"

\* the leading keyword CreateNode, UpdateNode and DeleteNode ask for
NodeKeyword(intent) ==
    CASE intent = "create" -> "insert"
      [] intent = "update" -> "update"
      [] intent = "delete" -> "delete"
      [] OTHER -> "select"

\* the executor was not called
NoOutcome == Outcome("none", "", FALSE, "", NoStatement, "", <<>>, -1, 0, FALSE, FALSE)

\* ViewNode.run has no check of the leading keyword; the other nodes have one
NodeChecksKeyword(intent) == intent # "view"

\* ViewNode.run, CreateNode.run, UpdateNode.run, DeleteNode.run: the store
\* afterwards, the statement generated, the calls of the executor, its outcome
\* and what the node printed
NodeRun(d, intent, resp, fault, now) ==
    LET sql == CliGenerateSql(resp)
    IN IF sql = ErrorSentinel
       THEN [db |-> d, sql |-> sql, executed |-> 0, out |-> NoOutcome,
             printed |-> "Skipping execution due to SQL generation error."]
       ELSE IF NodeChecksKeyword(intent) /\ ~StartsWith(sql, NodeKeyword(intent))
       THEN [db |-> d, sql |-> sql, executed |-> 0, out |-> NoOutcome,
             printed |-> "Error: Generated SQL is not the expected statement."]
       ELSE LET r == CliExecute(d, sql, intent, fault, now)
            IN [db |-> r.db, sql |-> sql, executed |-> 1, out |-> r.out,
                printed |-> IF r.out.how = "return" THEN "Results"
                            ELSE IF r.out.exc = "RuntimeError"
                            THEN "Error executing statement"
                            ELSE "An unexpected error occurred"]


---------------------------------------------------------------------------
(* src/backend/routers/sql_generator.py: the pattern strategy *)

\* User text is a sequence of words; a quote character is a word of its own
\* and a quoted name is one word.
Quote == "'"

\* str.lower() on the words of the model
LowerWord(w) ==
    CASE w = "Rent" -> "rent"
      [] w = "Other" -> "other"
      [] w = "Show" -> "show"
      [] OTHER -> w

LowerText(s) == [i \in 1..Len(s) |-> LowerWord(s[i])]

\* words written as a dollar sign and a number, and as a number alone
DollarWords == {"$12", "$7.50", "$0", "$10"}
BareNumbers == {"12", "2"}

\* the number re.search(r"\$?(\d+(?:\.\d{2})?)\s*(?:dollars?)?") finds in a word,
\* in cents: the first run of digits of the word, with two decimals if they
\* follow; -1 when the word holds no digit
NumberIn(w) ==
    CASE w = "$12" -> 1200
      [] w = "12" -> 1200
      [] w = "$7.50" -> 750
      [] w = "$0" -> 0
      [] w = "$10" -> 1000
      [] w = "2" -> 200
      [] w = "2024-01-01" -> 202400
      [] w = "2030-01-01" -> 203000
      [] w = "2026-13-45" -> 202600
      [] OTHER -> -1

\* (\$\d+(?:\.\d{2})?) at position m, or (\d+(?:\.\d{2})?)\s*dollars?
AmountAt(s, m) ==
    /\ m \in 1..Len(s)
    /\ \/ s[m] \in DollarWords
       \/ s[m] \in BareNumbers /\ m + 1 <= Len(s) /\ s[m + 1] \in {"dollars", "dollar"}

\* extract_amount(text)
extract_amount(s) ==
    LET hit == {i \in 1..Len(s) : NumberIn(s[i]) # -1}
    IN IF hit = {} THEN 0
       ELSE NumberIn(s[CHOOSE i \in hit : \A j \in hit : i <= j])

\* the place of the text "2026-13-45" among the dates, which SQLite compares as
\* text: after every day of the year that has Today; it names no day of the
\* calendar
NoCalendarDay == Today + 100

\* the day number of a word matching \d{4}-\d{2}-\d{2}, whatever the current
\* date is; -1 for any other word
IsoDay(w) ==
    CASE w = "2024-01-01" -> Today - 9
      [] w = "2030-01-01" -> Today + 5
      [] w = "2026-13-45" -> NoCalendarDay
      [] OTHER -> -1

\* extract_date(text)
extract_date(s, now) ==
    IF \E i \in 1..Len(s) : s[i] = "today" THEN now
    ELSE IF \E i \in 1..Len(s) : s[i] = "yesterday" THEN now - 1
    ELSE IF \E i \in 1..Len(s) : s[i] = "tomorrow" THEN now + 1
    ELSE LET hit == {i \in 1..Len(s) : IsoDay(s[i]) # -1}
         IN IF hit = {} THEN now
            ELSE IsoDay(s[CHOOSE i \in hit : \A j \in hit : i <= j])

ShowVerbs == {"show", "view", "list", "get", "display"}

\* a quoted name opens at position a
QuotedAt(s, a) ==
    a >= 1 /\ a + 2 <= Len(s) /\ s[a] = Quote /\ s[a + 1] # Quote /\ s[a + 2] = Quote

Positions(s, W) == {i \in 1..Len(s) : s[i] \in W}

Largest(S) == CHOOSE x \in S : \A y \in S : x >= y
Smallest(S) == CHOOSE x \in S : \A y \in S : x <= y

\* (show|view|list|get|display).*(entries|transactions).*last\s+week
MatchesListLastWeek(s) ==
    \E i \in Positions(s, ShowVerbs), j \in Positions(s, {"entries", "transactions"}),
       k \in Positions(s, {"last"}) :
        i < j /\ j < k /\ k + 1 <= Len(s) /\ s[k + 1] = "week"

\* (show|view|list|get|display).*(categories|category)
MatchesListCategories(s) ==
    \E i \in Positions(s, ShowVerbs), j \in Positions(s, {"categories", "category"}) :
        i < j

\* (create|add|new|make).+category.+called.+["'](.+)["'].*(?:for|as).*(expense|income)
\* the positions of the opening quote and of the kind word, greedy
CreateCategorySlots(s) ==
    {<<a, e>> \in (1..Len(s)) \X Positions(s, {"expense", "income"}) :
        /\ QuotedAt(s, a)
        /\ \E i \in Positions(s, {"create", "add", "new", "make"}),
              j \in Positions(s, {"category"}), k \in Positions(s, {"called"}),
              f \in Positions(s, {"for", "as"}) :
                i < j /\ j < k /\ k < a /\ a + 2 < f /\ f < e}

\* (add|create|new|record|log)\s+(.+?)(?:\s+on\s+|\s+for\s+|\s+)(amount): the
\* positions of the verb and of the last word of the description, lazy
AddTransactionSlots(s) ==
    {<<i, e>> \in Positions(s, {"add", "create", "new", "record", "log"}) \X (1..Len(s)) :
        /\ e > i
        /\ \/ AmountAt(s, e + 1)
           \/ e + 1 <= Len(s) /\ s[e + 1] \in {"on", "for"} /\ AmountAt(s, e + 2)}

\* (update|change|rename|modify).+category.+["'](.+)["'].+to.+["'](.+)["']
\* the positions of the two opening quotes
RenameCategorySlots(s) ==
    {<<a, c>> \in (1..Len(s)) \X (1..Len(s)) :
        /\ QuotedAt(s, a) /\ QuotedAt(s, c)
        /\ \E i \in Positions(s, {"update", "change", "rename", "modify"}),
              j \in Positions(s, {"category"}), t \in Positions(s, {"to"}) :
                i < j /\ j < a /\ a + 2 < t /\ t < c}

\* (delete|remove|drop).+category.+["'](.+)["']
DeleteCategorySlots(s) ==
    {a \in 1..Len(s) :
        /\ QuotedAt(s, a)
        /\ \E i \in Positions(s, {"delete", "remove", "drop"}),
              j \in Positions(s, {"category"}) : i < j /\ j < a}

Plan(sql, params, operation, success, error) ==
    [sql |-> sql, params |-> params, operation |-> operation,
     success |-> success, error |-> error]

\* the statement templates of the six rules
ByUser == Cond("user_id", "=", Param("user_id"))

ListLastWeekSql ==
    Stmt("none", "select", "transactions", NoParams,
         {ByUser, Cond("date", ">=", NowMinus7)}, FALSE)

ListCategoriesSql ==
    Stmt("none", "select", "categories", NoParams, {ByUser}, FALSE)

CreateCategorySql ==
    Stmt("none", "insert", "categories",
         [name |-> Param("name"), transaction_type |-> Param("type"),
          user_id |-> Param("user_id")],
         {}, FALSE)

AddTransactionSql ==
    Stmt("none", "insert", "transactions",
         [amount |-> Param("amount"), date |-> Param("date"),
          description |-> Param("description"), transaction_type |-> Param("type"),
          category_id |-> SubCategory("Other"), user_id |-> Param("user_id"),
          is_recurring |-> LitN(0)],
         {}, FALSE)

RenameCategorySql ==
    Stmt("none", "update", "categories", [name |-> Param("new_name")],
         {Cond("name", "=", Param("old_name")), ByUser}, FALSE)

DeleteCategorySql ==
    Stmt("none", "delete", "categories", NoParams,
         {Cond("name", "=", Param("name")), ByUser}, FALSE)

\* "expense".upper(), "income".upper()
UpperKind(w) == IF w = "income" THEN "INCOME" ELSE "EXPENSE"

\* generate_sql_with_llm trying the rule for the categories before the rule
\* for the transactions of last week
generate_sql_categories_first(text, now) ==
    LET s == LowerText(text)
    IN IF MatchesListCategories(s)
       THEN Plan(ListCategoriesSql, NoParams, "select", TRUE, "")
       ELSE IF MatchesListLastWeek(s)
       THEN Plan(ListLastWeekSql, NoParams, "select", TRUE, "")
       ELSE IF CreateCategorySlots(s) # {}
       THEN LET a == Largest({m[1] : m \in CreateCategorySlots(s)})
                e == Largest({m[2] : m \in {x \in CreateCategorySlots(s) : x[1] = a}})
            IN Plan(CreateCategorySql,
                    [name |-> s[a + 1], type |-> UpperKind(s[e])],
                    "insert", TRUE, "")
       ELSE IF AddTransactionSlots(s) # {}
       THEN LET i == Smallest({m[1] : m \in AddTransactionSlots(s)})
                e == Smallest({m[2] : m \in {x \in AddTransactionSlots(s) : x[1] = i}})
            IN Plan(AddTransactionSql,
                    [amount |-> extract_amount(s), date |-> extract_date(s, now),
                     description |-> SubSeq(s, i + 1, e), type |-> "EXPENSE"],
                    "insert", TRUE, "")
       ELSE IF RenameCategorySlots(s) # {}
       THEN LET a == Largest({m[1] : m \in RenameCategorySlots(s)})
                c == Largest({m[2] : m \in {x \in RenameCategorySlots(s) : x[1] = a}})
            IN Plan(RenameCategorySql,
                    [old_name |-> s[a + 1], new_name |-> s[c + 1]],
                    "update", TRUE, "")
       ELSE IF DeleteCategorySlots(s) # {}
       THEN Plan(DeleteCategorySql,
                 [name |-> s[Largest(DeleteCategorySlots(s)) + 1]],
                 "delete", TRUE, "")
       ELSE Plan(EmptySql, NoParams, "", FALSE, "Could not understand the command")

\* generate_sql_with_llm(system_prompt, user_input) of the backend
generate_sql_with_llm(text, now) ==
    LET s == LowerText(text)
    IN IF MatchesListLastWeek(s)
       THEN Plan(ListLastWeekSql, NoParams, "select", TRUE, "")
       ELSE IF MatchesListCategories(s)
       THEN Plan(ListCategoriesSql, NoParams, "select", TRUE, "")
       ELSE IF CreateCategorySlots(s) # {}
       THEN LET a == Largest({m[1] : m \in CreateCategorySlots(s)})
                e == Largest({m[2] : m \in {x \in CreateCategorySlots(s) : x[1] = a}})
            IN Plan(CreateCategorySql,
                    [name |-> s[a + 1], type |-> UpperKind(s[e])],
                    "insert", TRUE, "")
       ELSE IF AddTransactionSlots(s) # {}
       THEN LET i == Smallest({m[1] : m \in AddTransactionSlots(s)})
                e == Smallest({m[2] : m \in {x \in AddTransactionSlots(s) : x[1] = i}})
            IN Plan(AddTransactionSql,
                    [amount |-> extract_amount(s), date |-> extract_date(s, now),
                     description |-> SubSeq(s, i + 1, e), type |-> "EXPENSE"],
                    "insert", TRUE, "")
       ELSE IF RenameCategorySlots(s) # {}
       THEN LET a == Largest({m[1] : m \in RenameCategorySlots(s)})
                c == Largest({m[2] : m \in {x \in RenameCategorySlots(s) : x[1] = a}})
            IN Plan(RenameCategorySql,
                    [old_name |-> s[a + 1], new_name |-> s[c + 1]],
                    "update", TRUE, "")
       ELSE IF DeleteCategorySlots(s) # {}
       THEN Plan(DeleteCategorySql,
                 [name |-> s[Largest(DeleteCategorySlots(s)) + 1]],
                 "delete", TRUE, "")
       ELSE Plan(EmptySql, NoParams, "", FALSE, "Could not understand the command")


---------------------------------------------------------------------------
(* src/backend/routers/sql_executor.py *)

\* params["user_id"] = user_id
BindUser(params, user) ==
    [p \in DOMAIN params \cup {"user_id"} |->
        IF p = "user_id" THEN user ELSE params[p]]

\* the executor with conn.commit() left out of the branch of the mutations
execute_sql_query_uncommitted(d, plan, user, fault, now) ==
    IF ~plan.success
    THEN [db |-> d,
          out |-> Outcome("return", "", FALSE, plan.error, NoStatement, "",
                          <<>>, -1, 0, FALSE, FALSE)]
    ELSE IF fault = "connect"
    THEN [db |-> d,
          out |-> Outcome("raise", "RuntimeError", FALSE,
                          "Failed to connect to database", NoStatement, "",
                          <<>>, -1, 0, FALSE, FALSE)]
    ELSE LET r == IF fault = "execute" THEN SqlError(d, "database is locked")
                  ELSE SqlRun(d, plan.sql, BindUser(plan.params, user), now)
             kept == IF r.err = "" /\ Autocommits(plan.sql) THEN r.db ELSE d
         IN IF r.err # ""
            THEN [db |-> d,
                  out |-> Outcome("return", "", FALSE, r.err, NoStatement, "",
                                  <<>>, -1, 1, FALSE, plan.operation # "select")]
            ELSE IF plan.operation = "select"
            THEN [db |-> kept,
                  out |-> Outcome("return", "", TRUE, "", NoStatement,
                                  plan.operation, r.rows, -1, 1, FALSE, FALSE)]
            ELSE [db |-> kept,
                  out |-> Outcome("return", "", TRUE, "", NoStatement,
                                  plan.operation, <<>>, r.rowcount, 1, FALSE, FALSE)]

\* execute_sql_query(query_info, user_id) of the backend
execute_sql_query(d, plan, user, fault, now) ==
    IF ~plan.success
    THEN [db |-> d,
          out |-> Outcome("return", "", FALSE, plan.error, NoStatement, "",
                          <<>>, -1, 0, FALSE, FALSE)]
    ELSE IF fault = "connect"
    THEN [db |-> d,
          out |-> Outcome("raise", "RuntimeError", FALSE,
                          "Failed to connect to database", NoStatement, "",
                          <<>>, -1, 0, FALSE, FALSE)]
    ELSE LET r == IF fault = "execute" THEN SqlError(d, "database is locked")
                  ELSE IF fault = "other exception"
                  THEN SqlError(d, "not a sqlite3.Error")
                  ELSE SqlRun(d, plan.sql, BindUser(plan.params, user), now)
             kept == IF r.err = "" /\ Autocommits(plan.sql) THEN r.db ELSE d
         IN IF r.err # ""
            THEN [db |-> d,
                  out |-> Outcome("return", "", FALSE, r.err, NoStatement, "",
                                  <<>>, -1, 1, FALSE, plan.operation # "select")]
            ELSE IF plan.operation = "select"
            THEN [db |-> kept,
                  out |-> Outcome("return", "", TRUE, "", NoStatement,
                                  plan.operation, r.rows, -1, 1, FALSE, FALSE)]
            ELSE IF fault = "commit"
            THEN [db |-> kept,
                  out |-> Outcome("return", "", FALSE, "database is locked",
                                  NoStatement, "", <<>>, -1, 1, FALSE, TRUE)]
            ELSE [db |-> r.db,
                  out |-> Outcome("return", "", TRUE, "", NoStatement,
                                  plan.operation, <<>>, r.rowcount, 1, TRUE, FALSE)]

\* the calls execute_sql_query of the backend makes on its connection, in
\* their order, up to the point the call returns or raises
ConnectionEvents(d, plan, user, fault, now) ==
    IF ~plan.success \/ fault = "connect" THEN <<>>
    ELSE IF \/ fault \in {"execute", "other exception"}
            \/ SqlRun(d, plan.sql, BindUser(plan.params, user), now).err # ""
    THEN <<"connect", "cursor", "execute">>
           \o (IF plan.operation # "select" THEN <<"rollback">> ELSE <<>>)
           \o <<"cursor.close", "close">>
    ELSE IF plan.operation = "select"
    THEN <<"connect", "cursor", "execute", "fetchall", "cursor.close", "close">>
    ELSE IF fault = "commit"
    THEN <<"connect", "cursor", "execute", "rowcount", "commit", "rollback",
           "cursor.close", "close">>
    ELSE <<"connect", "cursor", "execute", "rowcount", "commit", "cursor.close",
           "close">>


---------------------------------------------------------------------------
(* src/backend/routers/response_generator.py *)

\* a word occurs in the lower-cased text
Mentions(text, W) == \E i \in 1..Len(text) : LowerWord(text[i]) \in W

RECURSIVE SumAmounts(_, _)
SumAmounts(rows, expense) ==
    IF rows = <<>> THEN 0
    ELSE (IF (rows[1][7] = "EXPENSE") = expense THEN rows[1][2] ELSE 0)
         + SumAmounts(Tail(rows), expense)

\* sorted(transactions_by_date.keys(), reverse=True)
RECURSIVE DatesDescending(_)
DatesDescending(S) ==
    IF S = {} THEN <<>>
    ELSE LET m == CHOOSE x \in S : \A y \in S : x >= y
         IN <<m>> \o DatesDescending(S \ {m})

\* the rows of one date, sorted(rows, key=transaction_type): a stable sort
RowsOfDate(rows, day) ==
    LET of(kind) == SelectSeq(rows, LAMBDA r : r[3] = day /\ r[7] = kind)
    IN of("EXPENSE") \o of("INCOME")

\* format_transaction_data(rows): the date headings, the lines under each, and
\* the summary block; no rows, no headings and no summary; raised is TRUE when
\* datetime.strptime(date_str, "%Y-%m-%d") raises ValueError on a heading
format_transaction_data(rows) ==
    IF rows = <<>>
    THEN [text |-> "No transactions found for the specified period.",
          headings |-> <<>>, lines |-> <<>>, summary |-> FALSE,
          income |-> 0, expense |-> 0, net |-> 0, raised |-> FALSE]
    ELSE LET days == DatesDescending({rows[i][3] : i \in 1..Len(rows)})
         IN [text |-> "listing",
             headings |-> days,
             lines |-> [i \in 1..Len(days) |-> RowsOfDate(rows, days[i])],
             summary |-> TRUE,
             income |-> SumAmounts(rows, FALSE),
             expense |-> SumAmounts(rows, TRUE),
             net |-> SumAmounts(rows, FALSE) - SumAmounts(rows, TRUE),
             raised |-> \E i \in 1..Len(rows) : rows[i][3] = NoCalendarDay]

\* ChatResponse(response, success, error, data); body is what the response
\* text embeds
ChatResponse(response, body, success, error, data) ==
    [response |-> response, body |-> body, success |-> success,
     error |-> error, data |-> data]

Apology ==
    "I encountered an error processing your request. Please try again."

\* the reply to an executed plan
ReplyTo(text, plan, o) ==
    IF o.how = "raise"
    THEN ChatResponse(Apology, <<>>, FALSE, o.error, <<>>)
    ELSE IF ~o.success
    THEN ChatResponse("I encountered an error while processing your request: {error}",
                      <<o.error>>, FALSE, o.error, <<>>)
    ELSE IF o.operation = "select"
    THEN IF Mentions(text, {"transactions", "entries"})
         THEN IF \E i \in 1..Len(o.rows) : Len(o.rows[i]) < 8
              THEN ChatResponse(Apology, <<>>, FALSE, "tuple index out of range", <<>>)
              ELSE IF format_transaction_data(o.rows).raised
              THEN ChatResponse(Apology, <<>>, FALSE,
                                "time data does not match format", <<>>)
              ELSE ChatResponse("{formatted_data}",
                                <<format_transaction_data(o.rows)>>, TRUE, "", o.rows)
         ELSE ChatResponse("Here are the items you requested.", <<>>, TRUE, "", o.rows)
    ELSE IF o.operation = "insert"
    THEN IF Mentions(text, {"category"})
         THEN ChatResponse("I've added the new category for you.", <<>>, TRUE, "", <<>>)
         ELSE ChatResponse(
                "I've added the transaction for {description} on {date} for ${amount}.",
                <<plan.params["description"], plan.params["date"],
                  plan.params["amount"]>>, TRUE, "", <<>>)
    ELSE IF o.operation = "update"
    THEN ChatResponse("I've updated the item as requested.", <<>>, TRUE, "", <<>>)
    ELSE ChatResponse("I've deleted the item as requested.", <<>>, TRUE, "", <<>>)

\* generate_response without its early return on a failed synthesis
generate_response_unguarded(d, user, text, fault, now) ==
    LET plan == generate_sql_with_llm(text, now)
        r == execute_sql_query(d, plan, user, fault, now)
    IN [db |-> r.db, plan |-> plan, executed |-> 1, out |-> r.out,
        reply |-> ReplyTo(text, plan, r.out)]

\* ResponseGenerator.generate_response(user_input): the store afterwards, the
\* reply, the plan, the calls of the executor and its outcome
generate_response(d, user, text, fault, now) ==
    LET plan == generate_sql_with_llm(text, now)
    IN IF ~plan.success
       THEN [db |-> d, plan |-> plan, executed |-> 0, out |-> NoOutcome,
             reply |-> ChatResponse(
                 "I'm not sure how to help with that request. Could you please rephrase it?",
                 <<>>, FALSE, plan.error, <<>>)]
       ELSE LET r == execute_sql_query(d, plan, user, fault, now)
            IN [db |-> r.db, plan |-> plan, executed |-> 1, out |-> r.out,
                reply |-> ReplyTo(text, plan, r.out)]

---------------------------------------------------------------------------
(* src/backend/routers/conversation_memory.py and the chat endpoint of
   src/backend/routers/agent.py *)

\* a user with no entry in the conversation_memories map
NoMemory == [present |-> FALSE, messages |-> <<>>, transactions |-> <<>>]

\* ConversationMemory(user_id)
ConversationMemory == [present |-> TRUE, messages |-> <<>>, transactions |-> <<>>]

\* add_interaction putting the interaction in front of the ones stored before
add_interaction_first(m, user_input, assistant_response, now, fails) ==
    IF fails THEN m
    ELSE [m EXCEPT !.messages = <<[timestamp |-> now,
                                   user_input |-> user_input,
                                   assistant_response |-> assistant_response]>> \o @]


\* ConversationMemory.add_interaction(user_input, assistant_response): an
\* exception while storing is logged and swallowed
add_interaction(m, user_input, assistant_response, now, fails) ==
    IF fails THEN m
    ELSE [m EXCEPT !.messages = Append(@, [timestamp |-> now,
                                           user_input |-> user_input,
                                           assistant_response |-> assistant_response])]

\* what the endpoint hands back: a ChatResponse, or an HTTPException
Returned(d, mems, r) ==
    [db |-> d, memories |-> mems, how |-> "return", status |-> 200,
     plan |-> r.plan, executed |-> r.executed, out |-> r.out, reply |-> r.reply]

NoReply == ChatResponse("", <<>>, FALSE, "", <<>>)

Raised(d, mems, r, status) ==
    [db |-> d, memories |-> mems, how |-> "http", status |-> status,
     plan |-> r.plan, executed |-> r.executed, out |-> r.out, reply |-> NoReply]

\* a new memory whatever the map holds for the user
MemoryOf_fresh(mems, user) == ConversationMemory

\* the memory of the user, created when the map has no entry for the user
MemoryOf(mems, user) ==
    IF mems[user].present THEN mems[user] ELSE ConversationMemory

\* the rest of chat once generate_response has returned r
ChatStores(mems, user, text, r, memfault, now) ==
    Returned(r.db,
             [mems EXCEPT ![user] =
                 add_interaction(MemoryOf(mems, user), text,
                                 <<r.reply.response, r.reply.body>>, now, memfault)],
             r)

\* chat with a failure to store the interaction turned into an HTTP 500
chat_memory_fatal(d, mems, user, text, fault, memfault, now) ==
    IF memfault
    THEN Raised(d, mems, generate_response(d, user, text, fault, now), 500)
    ELSE ChatStores(mems, user, text, generate_response(d, user, text, fault, now),
                    memfault, now)

\* POST /agent/chat with a body whose content is a non-empty string: the
\* memory is fetched or created, the response generated, the interaction
\* stored, the response returned
chat(d, mems, user, text, fault, memfault, now) ==
    ChatStores(mems, user, text, generate_response(d, user, text, fault, now),
               memfault, now)
\* generate_response was not called
NotGenerated ==
    [plan |-> Plan(EmptySql, NoParams, "", FALSE, ""), executed |-> 0,
     out |-> NoOutcome, reply |-> NoReply]

\* the shapes of a request body: JSON with a string content, text that is not
\* JSON, JSON without content, JSON whose content is not a string
BodyShapes == {"content", "not json", "no content", "not a string"}

\* content.strip() is empty: no word, or blank words only
Blank(text) == \A i \in 1..Len(text) : text[i] \in {"", " "}

\* POST /agent/chat: a body that is not JSON, has no content, or whose content
\* is not a string or is blank, is answered with HTTP 422 before the memory is
\* looked at; any other goes through chat
chat_request(d, mems, user, shape, text, fault, memfault, now) ==
    IF shape # "content" \/ Blank(text)
    THEN Raised(d, mems, NotGenerated, 422)
    ELSE chat(d, mems, user, text, fault, memfault, now)

\* ConversationMemory.clear()
clear(m) == [m EXCEPT !.messages = <<>>, !.transactions = <<>>]

\* POST /agent/chat/reset with every user's memory dropped
reset_chat_all(mems, user) ==
    [memories |-> [u \in DOMAIN mems |-> NoMemory],
     reply |-> ChatResponse("Chat history has been cleared. How can I help you today?",
                            <<>>, TRUE, "", <<>>)]

\* POST /agent/chat/reset: the memory of the user is cleared and its entry
\* deleted from the map, when there is one
reset_chat(mems, user) ==
    [memories |-> IF mems[user].present
                  THEN [mems EXCEPT ![user] = [clear(@) EXCEPT !.present = FALSE]]
                  ELSE mems,
     reply |-> ChatResponse("Chat history has been cleared. How can I help you today?",
                            <<>>, TRUE, "", <<>>)]

\* s[start:] of a Python list, start negative counting from the end
SliceFrom(s, start) ==
    LET from == IF start < 0
                THEN (IF Len(s) + start < 0 THEN 0 ELSE Len(s) + start)
                ELSE (IF start > Len(s) THEN Len(s) ELSE start)
    IN SubSeq(s, from + 1, Len(s))

\* ConversationMemory.get_recent_messages(limit): self.messages[-limit:]
get_recent_messages(m, limit) == SliceFrom(m.messages, 0 - limit)

\* ConversationMemory.get_recent_transactions(limit): self.transactions[-limit:]
get_recent_transactions(m, limit) == SliceFrom(m.transactions, 0 - limit)




---------------------------------------------------------------------------
(* src/backend/routers/categories.py, transactions.py: the REST endpoints *)

Reply(d, status) == [db |-> d, status |-> status]

\* DELETE /categories/{category_id}
delete_category(d, user, id) ==
    IF Tables \ d.tables # {} THEN Reply(d, 500)
    ELSE IF ~\E c \in d.categories : c.id = id /\ c.user_id = user
    THEN Reply(d, 404)
    ELSE IF \E t \in d.transactions : t.category_id = id
    THEN Reply(d, 400)
    ELSE Reply([d EXCEPT !.categories = {c \in @ : c.id # id}], 200)

\* POST /transactions/ with a body that passed TransactionCreate's validation
create_transaction(d, user, amount, day, description, kind, category_id) ==
    IF Tables \ d.tables # {} THEN Reply(d, 500)
    ELSE IF ~\E c \in d.categories : c.id = category_id /\ c.user_id = user
    THEN Reply(d, 400)
    ELSE IF (CHOOSE c \in d.categories : c.id = category_id).transaction_type # kind
    THEN Reply(d, 400)
    ELSE Reply([Sequenced(d, "transactions") EXCEPT !.transactions = @ \cup
                    {[id |-> NextId(d, "transactions"), amount |-> amount,
                      date |-> day, description |-> description,
                      is_recurring |-> 0, recurrence_period |-> "NONE",
                      transaction_type |-> kind, category_id |-> category_id,
                      user_id |-> user]}], 200)

\* PUT /categories/{category_id} without the look for a category of the user
\* that has the new name already
update_category_unchecked(d, user, id, name, kind) ==
    IF Tables \ d.tables # {} THEN Reply(d, 500)
    ELSE IF ~\E c \in d.categories : c.id = id /\ c.user_id = user
    THEN Reply(d, 404)
    ELSE Reply([d EXCEPT !.categories =
                    {IF c.id = id
                     THEN [c EXCEPT !.name = name, !.transaction_type = kind]
                     ELSE c : c \in @}], 200)


\* PUT /categories/{category_id} with a body that passed CategoryCreate's
\* validation: the name and the kind are replaced; the transactions filed
\* under the category are not looked at
update_category(d, user, id, name, kind) ==
    IF Tables \ d.tables # {} THEN Reply(d, 500)
    ELSE IF ~\E c \in d.categories : c.id = id /\ c.user_id = user
    THEN Reply(d, 404)
    ELSE IF \E c \in d.categories : c.name = name /\ c.user_id = user /\ c.id # id
    THEN Reply(d, 400)
    ELSE Reply([d EXCEPT !.categories =
                    {IF c.id = id
                     THEN [c EXCEPT !.name = name, !.transaction_type = kind]
                     ELSE c : c \in @}], 200)

\* POST /categories with a body that passed CategoryCreate's validation
create_category(d, user, name, kind) ==
    IF Tables \ d.tables # {} THEN Reply(d, 500)
    ELSE IF \E c \in d.categories : c.name = name /\ c.user_id = user
    THEN Reply(d, 400)
    ELSE Reply([Sequenced(d, "categories") EXCEPT !.categories = @ \cup
                    {[id |-> NextId(d, "categories"), name |-> name,
                      transaction_type |-> kind, user_id |-> user]}], 200)


---------------------------------------------------------------------------
(* Inputs *)

\* what users type into the chat
Commands ==
    {<<"Show", "me", "transactions", "from", "last", "week">>,
     <<"list", "categories">>,
     <<"create", "category", "called", Quote, "Rent", Quote, "for", "expense">>,
     <<"add", "lunch", "$12">>,
     <<"rename", "category", Quote, "rent", Quote, "to", Quote, "food", Quote>>,
     <<"delete", "category", Quote, "rent", Quote>>,
     <<"hello">>}

\* what users type into the chat to record a transaction and to look at it
AddCommands ==
    {<<"add", "lunch", "$12">>,
     <<"add", "lunch", "$0">>,
     <<"add", "2", "coffees", "$10">>,
     <<"add", "lunch", "tomorrow", "$12">>,
     <<"add", "taxi", "2030-01-01", "$12">>,
     <<"add", "lunch", "2026-13-45", "$12">>,
     <<"record", "dinner", "today", "$7.50">>,
     <<"show", "me", "transactions", "from", "today">>,
     <<"list", "categories", "of", "transactions">>,
     <<"Show", "me", "transactions", "from", "last", "week">>}


\* what users type into the chat while the store and the memory may fail
EndpointCommands ==
    {<<"Show", "me", "transactions", "from", "last", "week">>,
     <<"add", "lunch", "2026-13-45", "$12">>,
     <<"hello">>}


\* the chat requests that overlap: their user, the shape of the body and the
\* content
ChatRequests ==
    {[user |-> u, shape |-> b[1], text |-> b[2]] :
        u \in Users,
        b \in {<<"content", <<"hello">>>>, <<"content", <<"list", "categories">>>>,
               <<"no content", <<>>>>}}


\* what users type into the chat to create and rename categories
CategoryCommands ==
    {<<"create", "category", "called", Quote, "Rent", Quote, "for", "expense">>,
     <<"rename", "category", Quote, "rent", Quote, "to", Quote, "food", Quote>>}


\* what users type, one phrase for each rule of the pattern strategy and one
\* for none
Phrases ==
    {<<"Show", "me", "transactions", "from", "last", "week">>,
     <<"list", "categories">>,
     <<"create", "category", "called", Quote, "Rent", Quote, "for", "expense">>,
     <<"add", "lunch", "$12">>,
     <<"rename", "category", Quote, "rent", Quote, "to", Quote, "food", Quote>>,
     <<"delete", "category", Quote, "rent", Quote>>,
     <<"hello">>}

\* the texts of n phrases, one after the other
RECURSIVE Joined(_)
Joined(n) ==
    IF n = 0 THEN {<<>>} ELSE {f \o t : f \in Phrases, t \in Joined(n - 1)}

PatternTexts == UNION {Joined(n) : n \in 1..MaxPhrases}


\* what the hosted service answers when asked for a statement
GeneratedStatements ==
    {Stmt("none", "select", "categories", NoParams, {}, FALSE),
     Stmt("sql", "select", "transactions", NoParams,
          {Cond("user_id", "=", LitN(1))}, FALSE),
     Stmt("SQL", "select", "categories", NoParams, {}, FALSE),
     Stmt("none", "insert", "categories",
          [name |-> LitS("rent"), transaction_type |-> LitS("EXPENSE"),
           user_id |-> LitN(1)], {}, FALSE),
     Stmt("none", "update", "categories", [name |-> LitS("food")],
          {Cond("name", "=", LitS("rent"))}, FALSE),
     Stmt("none", "update", "categories", [transaction_type |-> LitS("INCOME")],
          {}, TRUE),
     Stmt("none", "delete", "categories", NoParams,
          {Cond("name", "=", LitS("Misc"))}, FALSE),
     Stmt("none", "delete", "categories", NoParams, {}, FALSE),
     Stmt("none", "drop table", "transactions", NoParams, {}, FALSE),
     Stmt("none", "alter table", "categories", NoParams, {}, FALSE),
     Stmt("none", "garbage", "", NoParams, {}, FALSE)}

\* the statements and the chat texts the executors are called with on their
\* own: a select, a mutation, an update without a WHERE clause, no statement
ConnectionStatements ==
    {Stmt("none", "select", "categories", NoParams, {}, FALSE),
     Stmt("none", "insert", "categories",
          [name |-> LitS("rent"), transaction_type |-> LitS("EXPENSE"),
           user_id |-> LitN(1)], {}, FALSE),
     Stmt("none", "update", "categories", [transaction_type |-> LitS("INCOME")],
          {}, FALSE),
     Stmt("none", "garbage", "", NoParams, {}, FALSE)}

ConnectionCommands ==
    {<<"list", "categories">>,
     <<"create", "category", "called", Quote, "Rent", Quote, "for", "expense">>,
     <<"hello">>}

GeneratorCompletions ==
    {Completion(FALSE, FALSE, q) : q \in GeneratedStatements}
      \cup {Completion(TRUE, FALSE, ErrorSentinel)}

\* what the hosted service answers when asked for an intent
Chars(w) ==
    CASE w = "view" -> <<"v", "i", "e", "w">>
      [] w = "View" -> <<"V", "i", "e", "w">>
      [] w = "create" -> <<"c", "r", "e", "a", "t", "e">>
      [] w = "CREATE" -> <<"C", "R", "E", "A", "T", "E">>
      [] w = "update" -> <<"u", "p", "d", "a", "t", "e">>
      [] w = "Update" -> <<"U", "p", "d", "a", "t", "e">>
      [] w = "delete" -> <<"d", "e", "l", "e", "t", "e">>
      [] w = "DELETE" -> <<"D", "E", "L", "E", "T", "E">>
      [] w = "query" -> <<"q", "u", "e", "r", "y">>
      [] w = "mutation" -> <<"m", "u", "t", "a", "t", "i", "o", "n">>
      [] w = "invalid" -> <<"i", "n", "v", "a", "l", "i", "d">>
      [] w = "view." -> <<"v", "i", "e", "w", ".">>
      [] w = "to view" -> <<"t", "o", " ", "v", "i", "e", "w">>
      [] OTHER -> <<>>

IntentTexts ==
    {l \o Chars(w) \o r :
        l \in {<<>>, <<" ">>, <<"\n">>},
        w \in {"view", "View", "create", "CREATE", "update", "Update", "delete",
               "DELETE", "query", "mutation", "invalid", "view.", "to view", ""},
        r \in {<<>>, <<" ">>, <<"\n">>, <<" ", "\t">>}}

ClassifierCompletions ==
    {Completion(FALSE, FALSE, t) : t \in IntentTexts}
      \cup {Completion(TRUE, FALSE, <<>>), Completion(FALSE, TRUE, <<>>)}

\* the answers the main loop of the command-line agent is run with
LoopCompletions ==
    {Completion(FALSE, FALSE, Chars("view")), Completion(FALSE, FALSE, Chars("CREATE")),
     Completion(FALSE, FALSE, Chars("Update") \o <<"\n">>),
     Completion(FALSE, FALSE, <<" ">> \o Chars("delete")),
     Completion(FALSE, FALSE, Chars("invalid")), Completion(TRUE, FALSE, <<>>)}

---------------------------------------------------------------------------
(* The state machine *)

\* the store after main.py has migrated the schema and seeded the categories
\* of the one user there is at startup; migrate_database creates the tables
\* with AUTOINCREMENT ids, and keeps the tables of a finance.db that the older
\* app created without
InitialStore(autoincrement) ==
    [categories |-> {[id |-> 1, name |-> "Misc", transaction_type |-> "EXPENSE",
                      user_id |-> 1],
                     [id |-> 2, name |-> "Income", transaction_type |-> "INCOME",
                      user_id |-> 1]},
     transactions |-> {},
     tables |-> Tables,
     altered |-> {},
     autoincrement |-> autoincrement,
     seq |-> [t \in Tables |-> IF autoincrement /\ t = "categories" THEN 2 ELSE 0]]

Init ==
    /\ db \in {InitialStore(a) : a \in BOOLEAN}
    /\ today = Today
    /\ last = [op |-> "start"]
    /\ conversation_memories = [u \in Users |-> NoMemory]
    /\ awaiting = {}

\* the ids stay within the bounds of the model
WithinBounds(d) ==
    /\ d.seq["categories"] <= MaxCategoryId
    /\ d.seq["transactions"] <= MaxTransactionId
    /\ \A c \in d.categories : c.id <= MaxCategoryId
    /\ \A t \in d.transactions : t.id <= MaxTransactionId

\* one turn of main()'s loop in src/agent.py: classify, route to the node, run
CliCommand ==
    \E cls \in LoopCompletions, gen \in GeneratorCompletions, fault \in Faults :
        \E intent \in {IntentWord(classify_crud_intent(cls))} :
            \E r \in {NodeRun(db, intent, gen, fault, today)} :
                /\ WithinBounds(r.db)
                /\ db' = r.db
                /\ last' = [op |-> "cli", intent |-> intent, sql |-> r.sql,
                            executed |-> r.executed, out |-> r.out,
                            printed |-> r.printed]
                /\ UNCHANGED <<today, conversation_memories, awaiting>>

\* ResponseGenerator.generate_response on one of the texts of C, the store
\* failing in one of the ways of F
ChatWith(C, F) ==
    \E user \in Users, text \in C, fault \in F :
        \E r \in {generate_response(db, user, text, fault, today)} :
            /\ WithinBounds(r.db)
            /\ db' = r.db
            /\ last' = [op |-> "chat", user |-> user, text |-> text, plan |-> r.plan,
                        executed |-> r.executed, out |-> r.out, reply |-> r.reply,
                        now |-> today]
            /\ UNCHANGED <<today, conversation_memories, awaiting>>

ChatStep(F) == ChatWith(Commands, F)

Chat == ChatStep(Faults)

ChatHealthy == ChatStep({"none"})

\* classify_crud_intent on its own
Classify ==
    \E resp \in ClassifierCompletions :
        /\ last' = [op |-> "classify", resp |-> resp,
                    intent |-> classify_crud_intent(resp)]
        /\ UNCHANGED <<db, today, conversation_memories, awaiting>>

RestDeleteCategory ==
    \E user \in Users, id \in 1..MaxCategoryId :
        \E r \in {delete_category(db, user, id)} :
            /\ db' = r.db
            /\ last' = [op |-> "delete_category", user |-> user, id |-> id,
                        status |-> r.status]
            /\ UNCHANGED <<today, conversation_memories, awaiting>>

RestCreateTransaction ==
    \E user \in Users, id \in 1..MaxCategoryId :
        \E r \in {create_transaction(db, user, 500, today, <<"dinner">>, "EXPENSE", id)} :
            /\ WithinBounds(r.db)
            /\ db' = r.db
            /\ last' = [op |-> "create_transaction", user |-> user,
                        status |-> r.status]
            /\ UNCHANGED <<today, conversation_memories, awaiting>>

RestUpdateCategory ==
    \E user \in Users, id \in 1..MaxCategoryId, name \in {"Misc", "food"},
       kind \in Kinds :
        \E r \in {update_category(db, user, id, name, kind)} :
            /\ db' = r.db
            /\ last' = [op |-> "update_category", user |-> user, id |-> id,
                        name |-> name, status |-> r.status]
            /\ UNCHANGED <<today, conversation_memories, awaiting>>

\* the chat pipeline recording and listing transactions, on a store that is
\* there or cannot be opened
ChatAdd == ChatWith(AddCommands, {"none", "connect"})

\* midnight passes: datetime.now() moves to the next day
Tick ==
    /\ today < Today + MaxDays
    /\ today' = today + 1
    /\ UNCHANGED <<db, last, conversation_memories, awaiting>>


\* one POST /agent/chat with valid content; the store and the storing of the
\* interaction may fail
ChatEndpoint ==
    \E user \in Users, text \in EndpointCommands, fault \in Faults,
       memfault \in BOOLEAN :
        /\ Len(conversation_memories[user].messages) < MaxMessages
        /\ \E r \in {chat(db, conversation_memories, user, text, fault, memfault, today)} :
            /\ WithinBounds(r.db)
            /\ db' = r.db
            /\ conversation_memories' = r.memories
            /\ last' = [op |-> "endpoint", user |-> user, text |-> text,
                        memfault |-> memfault, how |-> r.how, status |-> r.status,
                        plan |-> r.plan, executed |-> r.executed, out |-> r.out,
                        reply |-> r.reply, now |-> today]
            /\ UNCHANGED <<today, awaiting>>


\* a chat request reaches the server: its handler starts and waits for the
\* body, the one await of the handler
Arrive ==
    \E req \in ChatRequests \ awaiting :
        /\ Cardinality(awaiting) < MaxInflight
        /\ awaiting' = awaiting \cup {req}
        /\ UNCHANGED <<db, today, last, conversation_memories>>

\* the body is there: the handler of one of the waiting requests runs from
\* the parsing of the body to its return, with no await in between
Handle ==
    \E req \in awaiting, memfault \in BOOLEAN :
        /\ Len(conversation_memories[req.user].messages) < MaxHistory
        /\ \E r \in {chat_request(db, conversation_memories, req.user, req.shape,
                                  req.text, "none", memfault, today)} :
            /\ WithinBounds(r.db)
            /\ db' = r.db
            /\ conversation_memories' = r.memories
            /\ awaiting' = awaiting \ {req}
            /\ last' = [op |-> "chat_request", user |-> req.user, shape |-> req.shape,
                        text |-> req.text, memfault |-> memfault, how |-> r.how,
                        status |-> r.status, reply |-> r.reply, now |-> today]
            /\ UNCHANGED today

\* one POST /agent/chat/reset: the handler has no await
ResetChat ==
    \E user \in Users :
        \E r \in {reset_chat(conversation_memories, user)} :
            /\ conversation_memories' = r.memories
            /\ last' = [op |-> "reset", user |-> user, reply |-> r.reply]
            /\ UNCHANGED <<db, today, awaiting>>

\* the recent entries of a memory are asked for
Recent ==
    \E user \in Users, n \in 0..(MaxHistory + 1) :
        /\ conversation_memories[user].present
        /\ last' = [op |-> "recent", user |-> user, limit |-> n,
                    messages |-> get_recent_messages(conversation_memories[user], n),
                    transactions |->
                        get_recent_transactions(conversation_memories[user], n)]
        /\ UNCHANGED <<db, today, conversation_memories, awaiting>>


\* the chat pipeline creating and renaming categories on a healthy store
ChatCategories == ChatWith(CategoryCommands, {"none"})

RestCreateCategory ==
    \E user \in Users, name \in {"food", "rent"}, kind \in Kinds :
        \E r \in {create_category(db, user, name, kind)} :
            /\ WithinBounds(r.db)
            /\ db' = r.db
            /\ last' = [op |-> "create_category", user |-> user, name |-> name,
                        status |-> r.status]
            /\ UNCHANGED <<today, conversation_memories, awaiting>>


\* generate_sql_with_llm of the backend on its own
Synthesize ==
    \E text \in PatternTexts :
        /\ last' = [op |-> "synthesize", text |-> text,
                    plan |-> generate_sql_with_llm(text, today)]
        /\ UNCHANGED <<db, today, conversation_memories, awaiting>>


\* one call of execute_sql_query of src/agent.py
CliExecuteCall ==
    \E q \in ConnectionStatements, optype \in {"view", "create", "update"},
       fault \in ExecuteFaults :
        \E r \in {CliExecute(db, q, optype, fault, today)} :
            /\ WithinBounds(r.db)
            /\ db' = r.db
            /\ last' = [op |-> "cli_execute", sql |-> q, optype |-> optype,
                        fault |-> fault, out |-> r.out,
                        events |-> CliConnectionEvents(db, q, optype, fault, today)]
            /\ UNCHANGED <<today, conversation_memories, awaiting>>

\* one call of execute_sql_query of the backend
ExecuteCall ==
    \E user \in Users, text \in ConnectionCommands, fault \in ExecuteFaults :
        \E plan \in {generate_sql_with_llm(text, today)} :
            \E r \in {execute_sql_query(db, plan, user, fault, today)} :
                /\ WithinBounds(r.db)
                /\ db' = r.db
                /\ last' = [op |-> "execute", user |-> user, plan |-> plan,
                            fault |-> fault, out |-> r.out,
                            events |-> ConnectionEvents(db, plan, user, fault, today)]
                /\ UNCHANGED <<today, conversation_memories, awaiting>>


\* the command-line agent
Next == CliCommand

Spec == Init /\ [][Next]_vars

\* the classifier of the command-line agent
NextClassify == Classify

SpecClassify == Init /\ [][NextClassify]_vars

\* the chat pipeline on a store that may fail
NextChat == Chat

SpecChat == Init /\ [][NextChat]_vars

\* the backend on a healthy store: the chat pipeline and the REST endpoints
NextBackend == ChatHealthy \/ RestDeleteCategory \/ RestCreateTransaction

SpecBackend == Init /\ [][NextBackend]_vars

\* the backend on a healthy store: the chat pipeline and the REST endpoints
\* that create and update
NextRest == ChatHealthy \/ RestCreateTransaction \/ RestUpdateCategory

SpecRest == Init /\ [][NextRest]_vars

\* the chat pipeline recording transactions over the days
NextAdd == ChatAdd \/ Tick

SpecAdd == Init /\ [][NextAdd]_vars


\* the chat endpoint on a store and a memory that may fail
NextEndpoint == ChatEndpoint

SpecEndpoint == Init /\ [][NextEndpoint]_vars


\* the chat and reset endpoints under overlapping requests, and the memory
NextMemory == Arrive \/ Handle \/ ResetChat \/ Recent

SpecMemory == Init /\ [][NextMemory]_vars


\* the categories: created and renamed through the chat and the REST endpoints
NextCategories == ChatCategories \/ RestCreateCategory \/ RestUpdateCategory

SpecCategories == Init /\ [][NextCategories]_vars


\* the pattern strategy of the backend
SpecPattern == Init /\ [][Synthesize]_vars


\* the two executors called on their own
NextConnections == CliExecuteCall \/ ExecuteCall

SpecConnections == Init /\ [][NextConnections]_vars


---------------------------------------------------------------------------
(* The command-line agent: what is executed *)

\* C1: an UPDATE or a DELETE that has no WHERE clause is never executed: when
\* the plan is declared update or delete, the executor refuses it with a
\* "Safety Error" and hands nothing to the store.
C1_UnfilteredMutationRefused ==
    (/\ last.op = "cli"
     /\ last.intent \in {"update", "delete"}
     /\ last.executed = 1
     /\ last.sql.where = {})
        => (last.out.ran = 0 /\ last.out.error = "Safety Error")

\* C3: a statement that drops or alters a table is never handed to the store,
\* whatever kind the plan was declared as.
C3_SchemaStatementNeverRuns ==
    (last.op = "cli" /\ last.sql.verb \in {"drop table", "alter table"})
        => last.out.ran = 0

\* C4: the executor is called only when the statement begins with the keyword
\* of the declared kind: SELECT for view, INSERT for create, UPDATE for update,
\* DELETE for delete.
C4_KindMatchesKeyword ==
    (last.op = "cli" /\ last.executed = 1)
        => /\ last.sql.fence = "none"
           /\ last.intent = "view" => last.sql.verb = "select"
           /\ last.intent = "create" => last.sql.verb = "insert"
           /\ last.intent = "update" => last.sql.verb = "update"
           /\ last.intent = "delete" => last.sql.verb = "delete"

\* C9: executing a plan declared view leaves the store as it was, rows and
\* schema, whatever the statement says.
C9_ViewChangesNothing ==
    [][(last'.op = "cli" /\ last'.intent = "view") => db' = db]_vars

---------------------------------------------------------------------------
(* The classifier *)

---------------------------------------------------------------------------
(* The chat pipeline *)

\* the rows of the users other than u
RowsOfOthers(d, u) ==
    [categories |-> {c \in d.categories : c.user_id # u},
     transactions |-> {t \in d.transactions : t.user_id # u}]

\* the store with the rows of the users other than u taken out
WithoutOthers(d, u) ==
    [d EXCEPT !.categories = {c \in @ : c.user_id = u},
              !.transactions = {t \in @ : t.user_id = u}]

\* C2: a chat command of one user neither changes nor reads the rows of
\* another: the statement is filtered on :user_id, the other users' rows are
\* what they were, and the reply is the one the same command gets on the
\* store that differs in the other users' rows only.
C2_UsersAreIsolated ==
    [][last'.op = "chat" =>
         /\ last'.plan.success => "user_id" \in Placeholders(last'.plan.sql)
         /\ RowsOfOthers(db', last'.user) = RowsOfOthers(db, last'.user)
         /\ last'.reply =
              generate_response(WithoutOthers(db, last'.user), last'.user,
                                last'.text, "none", today).reply]_vars

\* C10: a category goes away only when no transaction refers to it.
C10_ReferencedCategoryStays ==
    [][\A c \in db.categories :
          (\E t \in db.transactions : t.category_id = c.id)
             => \E e \in db'.categories : e.id = c.id]_vars

RowsChanged(d, e, operation) ==
    IF operation = "insert"
    THEN Cardinality(e.categories \ d.categories)
           + Cardinality(e.transactions \ d.transactions)
    ELSE Cardinality(d.categories \ e.categories)
           + Cardinality(d.transactions \ e.transactions)

C8_UniformErrorResult ==
    (last.op = "chat" /\ last.executed = 1 /\ ~last.out.success)
        => /\ last.out.how = "return"
           /\ last.out.error # ""
           /\ last.out.query = last.plan.sql

---------------------------------------------------------------------------
(* The backend: what is stored *)

\* C11: after any sequence of chat commands and REST create and update
\* calls, every transaction that has a category is of the same kind as that
\* category.
C11_KindOfTransactionIsKindOfCategory ==
    \A t \in db.transactions : \A c \in db.categories :
        c.id = t.category_id => t.transaction_type = c.transaction_type

\* the amount the user wrote in an add command: the number that carries the
\* dollar sign or is followed by "dollars"
WrittenAmount(text) ==
    NumberIn(text[CHOOSE m \in 1..Len(text) : AmountAt(text, m)])

\* more than 0 and at most 1,000,000,000, in cents
AmountInRange(a) ==
    a > 0 /\ (a \div 100 < 1000000000 \/ (a \div 100 = 1000000000 /\ a % 100 = 0))

\* C12: every accepted add-transaction command stores the amount the user
\* wrote (the number with the dollar sign or followed by "dollars"), which is
\* more than 0 and at most 1,000,000,000; a command whose amount is out of that
\* range stores nothing.
C12_StoredAmountIsWrittenAmount ==
    [][(last'.op = "chat" /\ last'.plan.success /\ last'.plan.sql = AddTransactionSql)
          => IF AmountInRange(WrittenAmount(LowerText(last'.text)))
             THEN \A t \in db'.transactions \ db.transactions :
                      t.amount = WrittenAmount(LowerText(last'.text))
             ELSE db'.transactions = db.transactions]_vars

\* C13: no transaction stored through the chat pipeline is dated later than
\* the current date: the date defaults to today, and a command naming
\* tomorrow or a future date stores no future-dated transaction.
C13_NoFutureDate ==
    \A t \in db.transactions : t.date <= today

\* C14: pattern synthesis is deterministic: two calls with the same text
\* yield the same plan (statement, parameters, operation and flag), whenever
\* the two calls are made.
C14_SameTextSamePlan ==
    [][(last.op = "chat" /\ last'.op = "chat" /\ last'.text = last.text)
          => last'.plan = last.plan]_vars

---------------------------------------------------------------------------
(* Both agents: where the values of a statement are *)

\* the values written into the text of a statement
InlineValues(q) ==
    {q.cols[c] : c \in {x \in DOMAIN q.cols : q.cols[x].k \in {"lit_s", "lit_n"}}}
      \cup {c.src : c \in {x \in q.where : x.src.k \in {"lit_s", "lit_n"}}}

\* C15: the text of a statement that is executed holds no value taken from
\* the user's request: names, amounts, dates and descriptions are bound
\* through the named parameters of the plan. Here for the generative strategy
\* of the command-line agent.
C15_ValuesAreBoundNotInlined ==
    (last.op = "cli" /\ last.out.ran = 1) => InlineValues(last.sql) = {}

---------------------------------------------------------------------------
(* The chat pipeline: categories *)

\* the name a create-category command gives between its quotes, as typed
TypedName(text) ==
    text[Smallest(Positions(text, {Quote})) + 1]

\* C16: a command "create category called '<X>' for <income|expense>" yields
\* an insert on categories whose name parameter is X exactly as the user typed
\* it, case preserved, and whose kind is the upper-cased kind word.
C16_NameAsTyped ==
    (last.op = "chat" /\ last.plan.success /\ last.plan.sql = CreateCategorySql)
        => /\ last.plan.params.name = TypedName(last.text)
           /\ last.plan.params.type \in Kinds

---------------------------------------------------------------------------
(* The chat pipeline: transactions *)

ListToday == <<"show", "me", "transactions", "from", "today">>

\* C17: after a chat command has recorded a transaction dated today, a
\* listing command for "transactions from today" by the same user on the same
\* day succeeds and returns a row with that amount and that description.
C17_RecordedThenListed ==
    [][(/\ last.op = "chat" /\ last.plan.sql = AddTransactionSql
        /\ last.executed = 1 /\ last.out.success
        /\ last.plan.params.date = last.now
        /\ last'.op = "chat" /\ last'.user = last.user /\ last'.now = last.now
        /\ last'.text = ListToday)
          => /\ last'.reply.success
             /\ \E i \in 1..Len(last'.out.rows) :
                   /\ last'.out.rows[i][2] = last.plan.params.amount
                   /\ last'.out.rows[i][4] = last.plan.params.description]_vars

---------------------------------------------------------------------------
(* The chat pipeline: the listing of transactions *)

\* the sum of the amounts of the first n rows that are of one kind
RECURSIVE TotalOf(_, _, _)
TotalOf(rows, kind, n) ==
    IF n = 0 THEN 0
    ELSE TotalOf(rows, kind, n - 1) + (IF rows[n][7] = kind THEN rows[n][2] ELSE 0)

\* the places <<i, j>> of the reply where a row stands: under heading i, line j
PlacesOf(out, row) ==
    {p \in (1..Len(out.lines)) \X (1..MaxTransactionId + 1) :
        p[2] <= Len(out.lines[p[1]]) /\ out.lines[p[1]][p[2]] = row}

\* one heading per distinct date, strictly descending; every row exactly once,
\* under its own date; the summary block with the totals
ListingShape(rows, out) ==
    /\ out.summary
    /\ {out.headings[i] : i \in 1..Len(out.headings)}
          = {rows[k][3] : k \in 1..Len(rows)}
    /\ \A i, j \in 1..Len(out.headings) : i < j => out.headings[i] > out.headings[j]
    /\ Len(out.lines) = Len(out.headings)
    /\ \A k \in 1..Len(rows) :
          /\ Cardinality(PlacesOf(out, rows[k])) = 1
          /\ \A p \in PlacesOf(out, rows[k]) : out.headings[p[1]] = rows[k][3]
    /\ out.income = TotalOf(rows, "INCOME", Len(rows))
    /\ out.expense = TotalOf(rows, "EXPENSE", Len(rows))
    /\ out.net = out.income - out.expense

\* C18: the reply to every transaction listing has one date heading per
\* distinct date in strictly descending order, every returned row exactly once
\* under its date, and a summary block with total income, total expense and
\* net change = income - expense; the summary block is there, with total
\* income 0, whenever the result holds no income transaction.
C18_ListingHasHeadingsAndSummary ==
    (last.op = "chat" /\ last.plan.sql = ListLastWeekSql
     /\ last.executed = 1 /\ last.out.how = "return" /\ last.out.success)
        => /\ last.reply.success
           /\ Len(last.reply.body) = 1
           /\ ListingShape(last.out.rows, last.reply.body[1])

---------------------------------------------------------------------------
(* The chat pipeline: errors *)

\* C19: when the store fails to execute the statement, the response text of
\* the reply holds a generic apology only; the raw error of the store is in
\* the error field of the reply and nowhere in the response.
C19_StoreErrorNotInResponse ==
    (last.op = "chat" /\ last.executed = 1 /\ ~last.out.success)
        => /\ ~last.reply.success
           /\ last.reply.error = last.out.error
           /\ \A i \in 1..Len(last.reply.body) : last.reply.body[i] # last.out.error

\* the stages of a chat request that failed
SynthesisFailed(l) == ~l.plan.success

ExecutionFailed(l) == l.executed = 1 /\ (l.out.how = "raise" \/ ~l.out.success)

FormattingFailed(l) ==
    /\ l.executed = 1 /\ l.out.how = "return" /\ l.out.success
    /\ l.plan.sql = ListLastWeekSql
    /\ \E i \in 1..Len(l.out.rows) : l.out.rows[i][3] = NoCalendarDay

CommandFailed(l) == SynthesisFailed(l) \/ ExecutionFailed(l) \/ FormattingFailed(l)

\* a ChatResponse with a message for the user comes back, not an exception
RepliesToUser(l) == l.how = "return" /\ l.status = 200 /\ l.reply.response # ""

\* C20 as stated: for every chat request with valid content, whichever stage
\* fails (synthesis, execution, formatting, memory update), the endpoint
\* returns a ChatResponse with a message for the user, success = false and
\* error set; no exception is propagated.
C20_EveryFailureIsReported ==
    last.op = "endpoint" =>
        /\ RepliesToUser(last)
        /\ (CommandFailed(last) \/ last.memfault)
              => (~last.reply.success /\ last.reply.error # "")

\* C20 amended: for every chat request with valid content, whichever stage
\* fails, the endpoint returns a ChatResponse with a message for the user and
\* propagates no exception; success = false and error is set when synthesis,
\* execution or formatting failed; a failure to store the interaction is
\* logged only, and the reply of a command that succeeded keeps success = true
\* and no error.
C20_FailuresDegradeToReplies ==
    last.op = "endpoint" =>
        /\ RepliesToUser(last)
        /\ CommandFailed(last) => (~last.reply.success /\ last.reply.error # "")
        /\ ~CommandFailed(last) => (last.reply.success /\ last.reply.error = "")

\* the formatting of a listing failed, the storing of the interaction failed
\* as well, and the user still got a reply
C20_FormattingAndMemoryFailed ==
    /\ last.op = "endpoint"
    /\ FormattingFailed(last)
    /\ last.memfault
    /\ last.how = "return"
    /\ ~last.reply.success

---------------------------------------------------------------------------
(* The conversation memory *)

\* a sequence begins with another
IsPrefix(s, t) == Len(s) <= Len(t) /\ SubSeq(t, 1, Len(s)) = s

\* the interaction a returned chat request stores
InteractionOf(l) ==
    [timestamp |-> l.now, user_input |-> l.text,
     assistant_response |-> <<l.reply.response, l.reply.body>>]

\* the step is the handler of a chat request running to its return
HandlerRan == awaiting' # awaiting /\ awaiting' \subseteq awaiting

\* C21: under any interleaving of overlapping chat and reset requests, the
\* memory of a user is created only when the map has none: between two resets
\* of a user the memory in the map is never replaced, so what it holds is
\* only ever extended, and the interaction of every chat request that returned
\* is at the end of that user's memory when the handler returns and stays in
\* it until a reset of that user.
C21_MemoryCreatedOnce ==
    [][/\ \A u \in Users :
            (conversation_memories[u].present
             /\ ~(last'.op = "reset" /\ last'.user = u))
               => /\ conversation_memories'[u].present
                  /\ IsPrefix(conversation_memories[u].messages,
                              conversation_memories'[u].messages)
       /\ (HandlerRan /\ last'.how = "return" /\ ~last'.memfault)
            => /\ conversation_memories'[last'.user].present
               /\ conversation_memories'[last'.user].messages
                    = Append(conversation_memories[last'.user].messages,
                             InteractionOf(last'))]_vars

\* two chat requests of user 1 have returned while another request was still
\* waiting for its body
C21_TwoRequestsOverlapped ==
    /\ last.op = "chat_request" /\ last.user = 1 /\ last.how = "return"
    /\ Len(conversation_memories[1].messages) = MaxHistory
    /\ awaiting # {}

\* C27: a chat request that yields a reply of the pipeline, with success true
\* or false, appends exactly one interaction (time, text of the user, text of
\* the reply) to the end of the memory of its user and leaves the interactions
\* stored before as they were; a failure while storing leaves the memory as it
\* was and the request returns the reply it returns without the failure; a
\* request rejected with HTTP 422 appends nothing; no request changes the
\* memory of another user.
C27_OneInteractionPerReply ==
    [][HandlerRan
        => LET u == last'.user
               stored == conversation_memories[u].messages
               unfailing == chat_request(db, conversation_memories, u, last'.shape,
                                         last'.text, "none", FALSE, today)
           IN /\ \A v \in Users \ {u} :
                    conversation_memories'[v] = conversation_memories[v]
              /\ (last'.how = "return" /\ ~last'.memfault)
                    => /\ Len(conversation_memories'[u].messages) = Len(stored) + 1
                       /\ SubSeq(conversation_memories'[u].messages, 1, Len(stored))
                            = stored
                       /\ conversation_memories'[u].messages[Len(stored) + 1]
                            = InteractionOf(last')
              /\ last'.memfault
                    => /\ last'.how = unfailing.how
                       /\ last'.status = unfailing.status
                       /\ last'.reply = unfailing.reply
                       /\ conversation_memories'[u].messages = stored
              /\ last'.status = 422
                    => /\ last'.how = "http"
                       /\ conversation_memories' = conversation_memories]_vars

\* a reply with success=false was returned and stored behind an interaction
\* stored before
C27_FailureReplyStoredLast ==
    /\ last.op = "chat_request" /\ last.how = "return" /\ ~last.memfault
    /\ ~last.reply.success
    /\ Len(conversation_memories[last.user].messages) = 2
    /\ conversation_memories[last.user].messages[2].user_input = last.text


\* the last min(n, Len(s)) entries of s, in their order
LastOf(s, n) ==
    SubSeq(s, Len(s) - (IF n < Len(s) THEN n ELSE Len(s)) + 1, Len(s))

\* C28: get_recent_messages(n) and get_recent_transactions(n) return the last
\* min(n, length) entries of the sequence in chronological order for every
\* n >= 0, the empty list for n = 0, and do not modify the memory.
C28_RecentIsLastN ==
    [][last'.op = "recent"
        => /\ last'.messages
                = LastOf(conversation_memories[last'.user].messages, last'.limit)
           /\ last'.transactions
                = LastOf(conversation_memories[last'.user].transactions, last'.limit)
           /\ conversation_memories' = conversation_memories]_vars


---------------------------------------------------------------------------
(* The categories: one name once for a user *)

Owns(d, user, name) == \E c \in d.categories : c.user_id = user /\ c.name = name

\* the create or rename of last' would give its user a name twice in d
WouldDuplicate(d, l) ==
    \/ /\ l.op = "create_category"
       /\ Owns(d, l.user, l.name)
    \/ /\ l.op = "update_category"
       /\ \E c \in d.categories : c.id = l.id /\ c.user_id = l.user /\ c.name # l.name
       /\ Owns(d, l.user, l.name)
    \/ /\ l.op = "chat"
       /\ l.text[1] = "create"
       /\ Owns(d, l.user, "rent")
    \/ /\ l.op = "chat"
       /\ l.text[1] = "rename"
       /\ Owns(d, l.user, "rent")
       /\ Owns(d, l.user, "food")

\* the create or rename of last' failed
Refused(l) ==
    IF l.op = "chat" THEN ~l.reply.success ELSE l.status = 400

\* C23: after every create and rename of a category, through the chat or the
\* REST endpoints, no user owns two categories of one name; a create or a
\* rename that would give its user a name twice fails and leaves the
\* categories as they were.
C23_NameOncePerUser ==
    [][/\ \A c1, c2 \in db'.categories :
            (c1.name = c2.name /\ c1.user_id = c2.user_id) => c1 = c2
       /\ WouldDuplicate(db, last')
            => /\ Refused(last')
               /\ db'.categories = db.categories]_vars

\* a rename to a name its user has already was refused, while two users own
\* categories of one name
C23_RenameRefusedAndNameShared ==
    /\ last.op = "update_category"
    /\ last.status = 400
    /\ \E c1, c2 \in db.categories :
          c1.name = c2.name /\ c1.user_id # c2.user_id


---------------------------------------------------------------------------
(* The pattern strategy: the first rule that matches *)

\* the rules in their order: the transactions of last week, the categories,
\* create a category, add a transaction, rename a category, delete a category
RuleMatches(k, s) ==
    CASE k = 1 -> MatchesListLastWeek(s)
      [] k = 2 -> MatchesListCategories(s)
      [] k = 3 -> CreateCategorySlots(s) # {}
      [] k = 4 -> AddTransactionSlots(s) # {}
      [] k = 5 -> RenameCategorySlots(s) # {}
      [] k = 6 -> DeleteCategorySlots(s) # {}

RuleSql ==
    <<ListLastWeekSql, ListCategoriesSql, CreateCategorySql, AddTransactionSql,
      RenameCategorySql, DeleteCategorySql>>

RuleOperation == <<"select", "select", "insert", "insert", "update", "delete">>

RulesMatching(text) == {k \in 1..6 : RuleMatches(k, LowerText(text))}

\* the plan is the one of the earliest rule that matches the text, and a
\* text that no rule matches has no statement and the error text given
FirstMatchWins(l, message) ==
    IF RulesMatching(l.text) = {}
    THEN /\ ~l.plan.success
         /\ l.plan.error = message
         /\ l.plan.sql = EmptySql
    ELSE /\ l.plan.success
         /\ l.plan.sql = RuleSql[Smallest(RulesMatching(l.text))]
         /\ l.plan.operation = RuleOperation[Smallest(RulesMatching(l.text))]

\* C24 as stated: the plan of the pattern strategy is the plan of the first
\* rule, in the fixed order, that matches the text, and a text that matches no
\* rule yields success=false, the error "could not understand the command" and
\* no statement.
C24_FirstMatchWinsErrorAsStated ==
    last.op = "synthesize"
        => FirstMatchWins(last, "could not understand the command")

\* C24: the plan of the pattern strategy is the plan of the first rule, in the
\* fixed order, that matches the text, so a text that several rules match
\* yields the plan of the earliest; a text that matches no rule yields
\* success=false, the error "Could not understand the command" and no
\* statement.
C24_FirstMatchWins ==
    last.op = "synthesize"
        => FirstMatchWins(last, "Could not understand the command")

\* a text that the rule for the transactions of last week and the rule for
\* the categories match was given the plan of the first of them
C24_SeveralRulesMatched ==
    /\ last.op = "synthesize"
    /\ {1, 2} \subseteq RulesMatching(last.text)
    /\ last.plan.sql = ListLastWeekSql


---------------------------------------------------------------------------
(* The category of a transaction added through the chat *)

\* C25: every transaction inserted by the add-transaction rule references a
\* category that exists and that its user owns (the one named in the text,
\* else the one inferred from the description, else the fallback category that
\* every user has), so the stored category reference is never null.
C25_AddedTransactionHasCategoryOfUser ==
    \A t \in db.transactions :
        /\ t.category_id # 0
        /\ \E c \in db.categories : c.id = t.category_id /\ c.user_id = t.user_id


---------------------------------------------------------------------------
(* The layout of the reply to a select *)

\* C26: the reply to a select that succeeded has the layout of what the plan
\* selected: a plan that selects categories is answered with the generic list
\* reply and the rows as items, a plan that selects transactions with the
\* listing of transactions, whatever other words the text holds.
C26_LayoutFollowsPlan ==
    (/\ last.op = "chat"
     /\ last.plan.success
     /\ last.out.how = "return"
     /\ last.out.success
     /\ last.out.operation = "select")
        => /\ last.plan.sql.table = "categories"
                => /\ last.reply.success
                   /\ last.reply.response = "Here are the items you requested."
                   /\ last.reply.data = last.out.rows
           /\ last.plan.sql.table = "transactions"
                => /\ last.reply.success
                   /\ last.reply.response = "{formatted_data}"
                   /\ last.reply.data = last.out.rows


---------------------------------------------------------------------------
(* The connections of the executors *)

\* the connection that was opened is closed by the last call made on it, and
\* by no call before
ReleasedOnce(events) ==
    \A i \in 1..Len(events) : events[i] = "close" <=> i = Len(events)

\* C29: every call of an executor releases the connection it acquired on
\* every exit path (a select or a mutation that succeeded, a safety
\* rejection, a store error, any other exception): no connection is open when
\* the call returns or raises, and no connection is used or closed after it
\* was closed.
C29_ConnectionReleasedOnce ==
    last.op \in {"cli_execute", "execute"} => ReleasedOnce(last.events)


---------------------------------------------------------------------------
(* The fences around a generated statement *)

\* C30: the statement of the command-line agent that is validated and
\* executed has no fence marker left at its start or its end, whether the
\* answer of the generation service opened its fence with or without a
\* language tag; an answer without fences is passed on as it is.
C30_NoFenceLeft ==
    last.op = "cli" => last.sql.fence = "none"


=============================================================================
